---- MODULE Spec2Model ----
(***************************************************************************)
(* Model of the article ranking engine: app/services/ranking_service.py    *)
(* (RankingService) and app/models/ranking.py (RankingWeights,             *)
(* RankingResult, RankingBatch).                                           *)
(*                                                                         *)
(* Numbers.  Criterion scores and weights are Python floats that are       *)
(* multiples of 0.01; they are kept here as integers in hundredths         *)
(* (0.95 -> 95).  A total score is a sum of score*weight products and is   *)
(* kept in ten-thousandths (0.8 -> 8000); the diversity penalty            *)
(* 0.02/0.03 is 200/300 in that unit.  A percentile (n-i)/n*100 is kept    *)
(* as the exact fraction <<(n-i)*100, n>>.  The arithmetic of the scores    *)
(* is exact: the rounding of binary floating point is part of the model     *)
(* only for the validation of a weight vector, where the tolerance 0.01    *)
(* is compared with a float sum.                                           *)
(* Optional values.  Python None is the empty tuple << >>, a present       *)
(* value v is <<v>>.                                                       *)
(* Time.  The wall clock and scraped_at are whole hours.                   *)
(***************************************************************************)
EXTENDS Integers, Sequences, FiniteSets, TLC

VARIABLES
    articles,          \* the caller's input list (Article records)
    self_weights,      \* RankingService.weights, set by __init__
    wobj,              \* the caller's RankingWeights object, None if none
    error,             \* what the last RankingWeights constructor call raised, None if it returned
    now,               \* datetime.now(), in hours
    pc,                \* per call: position inside rank_articles
    weights,           \* per call: local `weights`
    top_n,             \* per call: argument `top_n`
    results,           \* per call: local `results`
    idx,               \* per call: loop index of the running for loop
    seen_categories,   \* per frame: Counter of _apply_diversity_bonus
    seen_sources,      \* per frame: Counter of _apply_diversity_bonus
    adjusted_results,  \* per call: local `adjusted_results`
    batch,             \* per call: the returned RankingBatch, None before
    start_time,        \* per call: local `start_time`
    first_pass,        \* ghost, per call: `results` as passed to the diversity pass
    reads,             \* ghost, per call: the clock value read for each record
    overlapped,        \* ghost, per call: another call was running during this one
    got                \* the last call of a query method of RankingBatch (get_top,
                       \* get_by_category): argument, return value, None before

vars == <<articles, self_weights, wobj, error, now, pc, weights, top_n, results, idx,
          seen_categories, seen_sources, adjusted_results, batch, start_time,
          first_pass, reads, overlapped, got>>

-----------------------------------------------------------------------------
(* Bounds of the model *)

MaxArticles == 3
MaxConcArticles == 2
MaxTopN == 2
MaxNow == 1
MaxGetTop == 4
MaxFeed == 7

Calls == {1, 2}

-----------------------------------------------------------------------------
(* Optional values and Python truthiness *)

None == << >>

Some(v) == <<v>>

Val(o) == o[1]

\* truthiness of an optional number: None and 0 are falsy
TruthyNum(o) == o # None /\ Val(o) # 0

\* truthiness of an optional string: None and "" are falsy
TruthyStr(o) == o # None /\ Val(o) # ""

Min(a, b) == IF a <= b THEN a ELSE b

Max(a, b) == IF a >= b THEN a ELSE b

Abs(a) == IF a >= 0 THEN a ELSE 0 - a

-----------------------------------------------------------------------------
(* dict: an insertion-ordered mapping, a sequence of <<key, value>> pairs *)

DictHas(d, k) == \E i \in 1..Len(d) : d[i][1] = k

DictGet(d, k, default) ==
    IF DictHas(d, k)
    THEN d[CHOOSE i \in 1..Len(d) : d[i][1] = k][2]
    ELSE default

DictSet(d, k, v) ==
    IF DictHas(d, k)
    THEN [i \in 1..Len(d) |-> IF d[i][1] = k THEN <<k, v>> ELSE d[i]]
    ELSE Append(d, <<k, v>>)

DictKeys(d) == [i \in 1..Len(d) |-> d[i][1]]

-----------------------------------------------------------------------------
(* RankingWeights *)

WeightFields == {"quality", "credibility", "engagement", "visuals", "timeliness",
                 "category_diversity", "geographic_diversity"}

Weights(q, c, e, v, t, cd, gd) ==
    [quality |-> q, credibility |-> c, engagement |-> e, visuals |-> v,
     timeliness |-> t, category_diversity |-> cd, geographic_diversity |-> gd]

WeightSum(w) ==
    w.quality + w.credibility + w.engagement + w.visuals + w.timeliness
      + w.category_diversity + w.geographic_diversity

-----------------------------------------------------------------------------
(* Python floats of the weight validation: IEEE-754 binary64, kept exactly. *)
(* A float is <<hi, lo>>, the integer hi * 2^30 + lo of units of 2^-59      *)
(* (the spacing of the floats from 2^-7 to 2^-6, where 0.01 lies); hi and   *)
(* lo of a negative float are both negative or zero.                        *)

LimbBase == 2^30

\* hi of 2^53 units; a float below it fits its 53 bits without rounding
FullMantissa == 2^23

\* the spacing, in units, of the floats of the magnitude of hi * 2^30
RECURSIVE Quantum(_)
Quantum(hi) == IF hi < FullMantissa THEN 1 ELSE 2 * Quantum(hi \div 2)

\* round-half-to-even of the exact value hi * 2^30 + lo + num/den units
\* (0 <= num < den) to the nearest float
RoundToFloat(hi, lo, num, den) ==
    LET q == Quantum(hi)
        r == lo % q
        twice == (2 * r * den) + (2 * num)
        up == twice > q * den \/ (twice = q * den /\ (lo \div q) % 2 = 1)
        lo1 == IF up THEN (lo - r) + q ELSE lo - r
    IN  <<hi + (lo1 \div LimbBase), lo1 % LimbBase>>

\* -a
FloatNeg(a) == <<0 - a[1], 0 - a[2]>>

\* the float of a decimal literal of h >= 0 hundredths:
\* h * 2^59 / 100 by long division, 14 and three times 15 binary digits,
\* then rounded; d1..d4 are the digit groups, r4 is the last remainder
FloatOfMagnitude(h) ==
    LET d1 == (h * (2^14)) \div 100
        r1 == (h * (2^14)) % 100
        d2 == (r1 * (2^15)) \div 100
        r2 == (r1 * (2^15)) % 100
        d3 == (r2 * (2^15)) \div 100
        r3 == (r2 * (2^15)) % 100
        d4 == (r3 * (2^15)) \div 100
        r4 == (r3 * (2^15)) % 100
    IN  RoundToFloat((d1 * (2^15)) + d2, (d3 * (2^15)) + d4, r4, 100)

\* the float of a decimal literal of h hundredths (0.2 is FloatOf(20),
\* -0.5 is FloatOf(-50))
FloatOf(h) == IF h >= 0 THEN FloatOfMagnitude(h) ELSE FloatNeg(FloatOfMagnitude(0 - h))

\* a + b: the exact sum hi * 2^30 + lo with 0 <= lo < 2^30, rounded by its
\* magnitude
FloatAdd(a, b) ==
    LET lo == (a[2] + b[2]) % LimbBase
        hi == a[1] + b[1] + (((a[2] + b[2]) - lo) \div LimbBase)
    IN  IF hi >= 0 THEN RoundToFloat(hi, lo, 0, 1)
        ELSE IF lo = 0 THEN FloatNeg(RoundToFloat(0 - hi, 0, 0, 1))
        ELSE FloatNeg(RoundToFloat((0 - hi) - 1, LimbBase - lo, 0, 1))

\* a > b
FloatGreater(a, b) == a[1] > b[1] \/ (a[1] = b[1] /\ a[2] > b[2])

\* abs(a - b)
FloatAbsDiff(a, b) ==
    LET d == FloatAdd(a, FloatNeg(b))
    IN  IF FloatGreater(<<0, 0>>, d) THEN FloatNeg(d) ELSE d

\* lines 32-36: total, the seven fields added from left to right
FloatTotal(w) ==
    FloatAdd(FloatAdd(FloatAdd(FloatAdd(FloatAdd(FloatAdd(
        FloatOf(w.quality), FloatOf(w.credibility)), FloatOf(w.engagement)),
        FloatOf(w.visuals)), FloatOf(w.timeliness)), FloatOf(w.category_diversity)),
        FloatOf(w.geographic_diversity))

\* __post_init__ raises ValueError when abs(total - 1.0) > 0.01
PostInitRaises(w) ==
    FloatGreater(FloatAbsDiff(FloatTotal(w), FloatOf(100)), FloatOf(1))

WeightsDefault == Weights(20, 20, 15, 10, 15, 10, 10)

WeightsQualityFocused == Weights(30, 30, 10, 5, 10, 8, 7)

WeightsEngagementFocused == Weights(15, 15, 25, 20, 10, 8, 7)

\* a caller's vector that puts all the base weight on timeliness
WeightsTimely == Weights(0, 0, 0, 0, 80, 10, 10)

\* a caller's vector with a negative field: RankingWeights(quality=1.5,
\* credibility=-0.5) and the other five fields 0; the fields sum to 1.0
WeightsSigned == Weights(150, 0 - 50, 0, 0, 0, 0, 0)

-----------------------------------------------------------------------------
(* Article: the fields of app/models/article.py that the engine reads.     *)
(* The texts are kept by the features the scoring functions test:          *)
(*   content_len = len(content), paragraphs = len(content.split('\n\n')),  *)
(*   has_quote = a quotation mark occurs in content,                       *)
(*   title_len = len(title), clickbait = number of clickbait patterns      *)
(*   that match the title, question = '?' in title, number = the title     *)
(*   matches \b\d+\b, trending = number of trending terms in the title,    *)
(*   breaking / exclusive = the word occurs in the title,                  *)
(*   images = len(images); excerpt_len = len(excerpt), None for an         *)
(*   excerpt that is None.                                                 *)
(* status, rank_score and ranking_details are the fields a caller fills    *)
(* in after a ranking (status "scraped" until then).                       *)
(* A domain is the sequence of its dot-separated labels.                   *)

BaseArticle ==
    [id |-> "a1", title_len |-> 45, clickbait |-> 0, question |-> FALSE,
     number |-> FALSE, trending |-> 0, breaking |-> FALSE, exclusive |-> FALSE,
     content_len |-> 0, paragraphs |-> 1, has_quote |-> FALSE,
     author |-> None, excerpt_len |-> Some(0),
     image_url |-> None, generated_image_url |-> None, images |-> 0,
     source |-> [name |-> "X", domain |-> <<"reuters", "com">>, reliability_score |-> Some(50)],
     category |-> Some("Tech"), scraped_at |-> Some(0),
     status |-> "scraped", rank_score |-> 0, ranking_details |-> << >>]

\* two records of one category and one source, scraped at hour 0
P1 == BaseArticle

P2 == [BaseArticle EXCEPT !.id = "a2"]

\* a record of another category and source, on a less credible domain
P3 == [BaseArticle EXCEPT !.id = "a3", !.category = Some("World"),
         !.source = [name |-> "Y", domain |-> <<"foxnews", "com">>, reliability_score |-> Some(50)]]

\* a record without category, reliability score or timestamp, with a long body
P4 == [BaseArticle EXCEPT !.id = "a4", !.category = None, !.scraped_at = None,
         !.content_len = 2500, !.paragraphs = 4, !.has_quote = TRUE,
         !.author = Some("John Reporter"), !.excerpt_len = Some(80),
         !.image_url = Some("https://example.com/image1.jpg"),
         !.source = [name |-> "X", domain |-> <<"WWW", "Example", "org">>, reliability_score |-> None]]

\* a second scrape that carries the id of P1, older, of another category and
\* source, without an excerpt
P5 == [BaseArticle EXCEPT !.category = Some("World"), !.scraped_at = Some(0 - 5),
         !.excerpt_len = None,
         !.title_len = 30, !.clickbait = 2, !.question = TRUE, !.breaking = TRUE,
         !.source = [name |-> "Y", domain |-> <<"www", "bbc", "co", "uk">>, reliability_score |-> Some(0)]]

\* a third record of the category and source of P1 and P2
P6 == [BaseArticle EXCEPT !.id = "a6"]

Pool == {P1, P2, P3, P4, P5, P6}

\* the lists of at most n different records of a pool
RECURSIVE ListsOf(_, _)
ListsOf(pool, n) ==
    IF n = 0 THEN {<< >>}
    ELSE LET shorter == ListsOf(pool, n - 1)
         IN  shorter \cup {Append(l, p) : l \in {s \in shorter : Len(s) = n - 1},
                                           p \in pool} 

NoRepeat(l) == \A i, j \in 1..Len(l) : i # j => l[i] # l[j]

ArticleLists(pool, n) == {l \in ListsOf(pool, n) : NoRepeat(l)}

-----------------------------------------------------------------------------
(* Scoring functions of RankingService, in hundredths *)

\* what a scoring function yields when an operation in it raises TypeError
\* (len(None), datetime - None); no score has this value
TypeError == 0 - 1

Clamp01(score) == Max(0, Min(100, score))

\* the sum of the parts without the clamp of line 155
_score_qualityUnclamped(article) ==
    LET length == IF article.content_len > 2000 THEN 30
                  ELSE IF article.content_len > 1000 THEN 20
                  ELSE IF article.content_len > 500 THEN 10
                  ELSE 0
        title == IF 40 <= article.title_len /\ article.title_len <= 100 THEN 20
                 ELSE IF 20 <= article.title_len /\ article.title_len <= 120 THEN 10
                 ELSE 0
        author == IF TruthyStr(article.author) THEN 10 ELSE 0
        excerpt == IF TruthyNum(article.excerpt_len) /\ Val(article.excerpt_len) > 50
                   THEN 10 ELSE 0
        clickbait == article.clickbait * 10
        paragraphs == IF article.content_len > 0 /\ article.paragraphs >= 3 THEN 10 ELSE 0
        quotes == IF article.content_len > 0 /\ article.has_quote THEN 10 ELSE 0
    IN  length + title + author + excerpt - clickbait + paragraphs + quotes

_score_quality(article) ==
    LET length == IF article.content_len > 2000 THEN 30
                  ELSE IF article.content_len > 1000 THEN 20
                  ELSE IF article.content_len > 500 THEN 10
                  ELSE 0
        title == IF 40 <= article.title_len /\ article.title_len <= 100 THEN 20
                 ELSE IF 20 <= article.title_len /\ article.title_len <= 120 THEN 10
                 ELSE 0
        author == IF TruthyStr(article.author) THEN 10 ELSE 0
        excerpt == IF TruthyNum(article.excerpt_len) /\ Val(article.excerpt_len) > 50
                   THEN 10 ELSE 0
        clickbait == article.clickbait * 10
        paragraphs == IF article.content_len > 0 /\ article.paragraphs >= 3 THEN 10 ELSE 0
        quotes == IF article.content_len > 0 /\ article.has_quote THEN 10 ELSE 0
    IN  Clamp01(length + title + author + excerpt - clickbait + paragraphs + quotes)

\* str.lower() on the labels that occur in the model
Lower(label) ==
    CASE label = "WWW" -> "www"
      [] label = "Example" -> "example"
      [] OTHER -> label

CREDIBILITY_SCORES ==
    {<< <<"reuters", "com">>, 95 >>, << <<"apnews", "com">>, 95 >>,
     << <<"bbc", "com">>, 90 >>, << <<"bbc", "co", "uk">>, 90 >>,
     << <<"npr", "org">>, 88 >>, << <<"pbs", "org">>, 88 >>,
     << <<"nytimes", "com">>, 85 >>, << <<"washingtonpost", "com">>, 85 >>,
     << <<"theguardian", "com">>, 85 >>, << <<"wsj", "com">>, 85 >>,
     << <<"economist", "com">>, 85 >>, << <<"cnn", "com">>, 75 >>,
     << <<"foxnews", "com">>, 70 >>, << <<"msnbc", "com">>, 70 >>}

\* domain.lower(), then the leading "www." removed
NormalDomain(domain) ==
    LET lowered == [i \in 1..Len(domain) |-> Lower(domain[i])]
    IN  IF Len(lowered) >= 2 /\ lowered[1] = "www" THEN Tail(lowered) ELSE lowered

_score_credibility(article) ==
    LET domain == NormalDomain(article.source.domain)
    IN  IF \E e \in CREDIBILITY_SCORES : e[1] = domain
        THEN (CHOOSE e \in CREDIBILITY_SCORES : e[1] = domain)[2]
        ELSE IF TruthyNum(article.source.reliability_score)
        THEN Val(article.source.reliability_score)
        ELSE 50

_score_engagement(article) ==
    Min(100, 50 + (IF article.question THEN 10 ELSE 0)
                + (IF article.number THEN 5 ELSE 0)
                + article.trending * 5
                + (IF article.breaking THEN 10 ELSE 0)
                + (IF article.exclusive THEN 10 ELSE 0))

_score_visuals(article) ==
    Min(100, (IF TruthyStr(article.image_url) THEN 50 ELSE 0)
           + (IF TruthyStr(article.generated_image_url) THEN 30 ELSE 0)
           + (IF article.images > 1 THEN 20 ELSE 0))

\* the function without the guard of line 229: datetime.now() - None raises
_score_timelinessUnguarded(article, clock) ==
    IF article.scraped_at = None THEN TypeError
    ELSE LET hours == clock - Val(article.scraped_at)
         IN  IF hours < 1 THEN 100
             ELSE IF hours < 6 THEN 90
             ELSE IF hours < 12 THEN 80
             ELSE IF hours < 24 THEN 70
             ELSE IF hours < 48 THEN 50
             ELSE IF hours < 72 THEN 30
             ELSE 10

\* clock is the value datetime.now() returns when the function runs
_score_timeliness(article, clock) ==
    IF article.scraped_at = None THEN 50
    ELSE LET hours == clock - Val(article.scraped_at)
         IN  IF hours < 1 THEN 100
             ELSE IF hours < 6 THEN 90
             ELSE IF hours < 12 THEN 80
             ELSE IF hours < 24 THEN 70
             ELSE IF hours < 48 THEN 50
             ELSE IF hours < 72 THEN 30
             ELSE 10

\* lines 78-84: an exception raised by a scoring function is not caught
ScoringRaises(article, clock) ==
    TypeError \in {_score_quality(article), _score_credibility(article),
                   _score_engagement(article), _score_visuals(article),
                   _score_timeliness(article, clock)}

\* a result that records the default preset whatever vector scored it
_rank_singleRecordsDefault(article, w, clock, origin) ==
    LET scores == << <<"quality", _score_quality(article)>>,
                     <<"credibility", _score_credibility(article)>>,
                     <<"engagement", _score_engagement(article)>>,
                     <<"visuals", _score_visuals(article)>>,
                     <<"timeliness", _score_timeliness(article, clock)>> >>
        total_score == DictGet(scores, "quality", 0) * w.quality
                     + DictGet(scores, "credibility", 0) * w.credibility
                     + DictGet(scores, "engagement", 0) * w.engagement
                     + DictGet(scores, "visuals", 0) * w.visuals
                     + DictGet(scores, "timeliness", 0) * w.timeliness
    IN  [article_id |-> article.id, total_score |-> total_score, scores |-> scores,
         weights_used |-> WeightsDefault, rank_position |-> 0, percentile |-> <<0, 1>>,
         origin |-> origin]

\* origin is a ghost field: the index in the input list of the record that the
\* result was computed from (the identity of the Python object)
_rank_single(article, w, clock, origin) ==
    LET scores == << <<"quality", _score_quality(article)>>,
                     <<"credibility", _score_credibility(article)>>,
                     <<"engagement", _score_engagement(article)>>,
                     <<"visuals", _score_visuals(article)>>,
                     <<"timeliness", _score_timeliness(article, clock)>> >>
        total_score == DictGet(scores, "quality", 0) * w.quality
                     + DictGet(scores, "credibility", 0) * w.credibility
                     + DictGet(scores, "engagement", 0) * w.engagement
                     + DictGet(scores, "visuals", 0) * w.visuals
                     + DictGet(scores, "timeliness", 0) * w.timeliness
    IN  [article_id |-> article.id, total_score |-> total_score, scores |-> scores,
         weights_used |-> w, rank_position |-> 0, percentile |-> <<0, 1>>,
         origin |-> origin]

-----------------------------------------------------------------------------
(* list.sort(key=lambda r: r.total_score, reverse=True): a stable sort,    *)
(* records of equal key keep the order they had in the list                *)

\* a sort that is not stable: r is put before the elements of equal key
InsertDescBeforeEqual(sorted, r) ==
    LET ahead == Cardinality({i \in 1..Len(sorted) : sorted[i].total_score > r.total_score})
    IN  SubSeq(sorted, 1, ahead) \o <<r>> \o SubSeq(sorted, ahead + 1, Len(sorted))

\* the list with r put behind every element whose key is not smaller
InsertDesc(sorted, r) ==
    LET ahead == Cardinality({i \in 1..Len(sorted) : sorted[i].total_score >= r.total_score})
    IN  SubSeq(sorted, 1, ahead) \o <<r>> \o SubSeq(sorted, ahead + 1, Len(sorted))

RECURSIVE SortFrom(_, _, _)
SortFrom(list, k, sorted) ==
    IF k > Len(list) THEN sorted
    ELSE SortFrom(list, k + 1, InsertDesc(sorted, list[k]))

SortByScoreDesc(list) == SortFrom(list, 1, << >>)

-----------------------------------------------------------------------------
(* rank_articles, lines 54-58: positions and percentiles of the sorted list *)

\* the quotient 100 / total taken once, before the loop
PositionsRaiseEager(list) == Len(list) = 0

\* lines 55-58: (total - i) / total raises ZeroDivisionError for total = 0;
\* the division is in the body of the loop over the results
PositionsRaise(list) == \E k \in 1..Len(list) : Len(list) = 0

\* percentiles counted from the position instead of the index
AssignPositionsOffByOne(list) ==
    LET total == Len(list)
    IN  [k \in 1..total |->
            [list[k] EXCEPT !.rank_position = (k - 1) + 1,
                            !.percentile = <<(total - k) * 100, total>>]]

AssignPositions(list) ==
    LET total == Len(list)
    IN  [k \in 1..total |->
            [list[k] EXCEPT !.rank_position = (k - 1) + 1,
                            !.percentile = <<(total - (k - 1)) * 100, total>>]]

-----------------------------------------------------------------------------
(* _apply_diversity_bonus *)

\* article_map = {a.id: a for a in articles}: the last record of an id wins
ArticleMapGet(list, id) ==
    LET hits == {i \in 1..Len(list) : list[i].id = id}
    IN  IF hits = {} THEN None
        ELSE Some(list[CHOOSE i \in hits : \A j \in hits : j <= i])

\* counters kept in one place for all calls, as attributes of the service would be
FrameShared(t) == 1

\* the local variables of one call live in the frame of that call
Frame(t) == t

\* a penalty scaled by the two diversity weights of the vector in use
PenalisedByWeights(result, category_count, source_count) ==
    LET diversity_penalty ==
            (category_count * 20 * result.weights_used.category_diversity)
              + (source_count * 30 * result.weights_used.geographic_diversity)
        scores1 == DictSet(result.scores, "category_diversity",
                           Max(0, 100 - (category_count * 20)))
        scores2 == DictSet(scores1, "geographic_diversity",
                           Max(0, 100 - (source_count * 20)))
    IN  [result EXCEPT !.total_score = Max(0, result.total_score - diversity_penalty),
                       !.scores = scores2]

\* a penalty that leaves the source count out
PenalisedCategoryOnly(result, category_count, source_count) ==
    LET diversity_penalty == category_count * 200
        scores1 == DictSet(result.scores, "category_diversity",
                           Max(0, 100 - (category_count * 20)))
        scores2 == DictSet(scores1, "geographic_diversity",
                           Max(0, 100 - (source_count * 20)))
    IN  [result EXCEPT !.total_score = Max(0, result.total_score - diversity_penalty),
                       !.scores = scores2]

\* a penalty without the floor of line 276
PenalisedUnfloored(result, category_count, source_count) ==
    LET diversity_penalty == (category_count * 200) + (source_count * 300)
        scores1 == DictSet(result.scores, "category_diversity",
                           Max(0, 100 - (category_count * 20)))
        scores2 == DictSet(scores1, "geographic_diversity",
                           Max(0, 100 - (source_count * 20)))
    IN  [result EXCEPT !.total_score = result.total_score - diversity_penalty,
                       !.scores = scores2]

\* a penalty for counts that include the record itself
PenalisedCountingItself(result, category_count, source_count) ==
    LET diversity_penalty == ((category_count + 1) * 200) + ((source_count + 1) * 300)
        scores1 == DictSet(result.scores, "category_diversity",
                           Max(0, 100 - ((category_count + 1) * 20)))
        scores2 == DictSet(scores1, "geographic_diversity",
                           Max(0, 100 - ((source_count + 1) * 20)))
    IN  [result EXCEPT !.total_score = Max(0, result.total_score - diversity_penalty),
                       !.scores = scores2]

\* lines 270-278: the result after the penalty, for the counts seen so far
Penalised(result, category_count, source_count) ==
    LET diversity_penalty == (category_count * 200) + (source_count * 300)
        scores1 == DictSet(result.scores, "category_diversity",
                           Max(0, 100 - (category_count * 20)))
        scores2 == DictSet(scores1, "geographic_diversity",
                           Max(0, 100 - (source_count * 20)))
    IN  [result EXCEPT !.total_score = Max(0, result.total_score - diversity_penalty),
                       !.scores = scores2]

\* a category counter that is never incremented
CountCategoryNever(counter, article) == counter

\* lines 281-283: the counters after a record was seen
CountCategory(counter, article) ==
    IF TruthyStr(article.category)
    THEN DictSet(counter, article.category, DictGet(counter, article.category, 0) + 1)
    ELSE counter

CountSource(counter, article) ==
    DictSet(counter, article.source.name, DictGet(counter, article.source.name, 0) + 1)

\* the adjusted list returned without the re-sort
ResortSkipped(list) == list

\* lines 287-288: adjusted_results.sort(...)
Resort(list) == SortByScoreDesc(list)

\* a truncation that keeps the end of the list: results[-top_n:]
TruncateTail(list, n) ==
    IF TruthyNum(n)
    THEN SubSeq(list, (Len(list) - Min(Val(n), Len(list))) + 1, Len(list))
    ELSE list

\* a truncation that numbers the kept results anew
TruncateRenumbered(list, n) ==
    IF TruthyNum(n) THEN AssignPositions(SubSeq(list, 1, Min(Val(n), Len(list)))) ELSE list

\* lines 64-65: if top_n: results = results[:top_n]
Truncate(list, n) ==
    IF TruthyNum(n) THEN SubSeq(list, 1, Min(Val(n), Len(list))) ELSE list

-----------------------------------------------------------------------------
(* The steps of one call t of rank_articles *)

Idle(t) == pc[t] \in {"idle", "done", "raised"}

\* an engine that stores the score in the record it scored and marks it ranked
InputAfterRankSingleWritten(list, k, result) ==
    [list EXCEPT ![k] = [@ EXCEPT !.rank_score = result.total_score,
                                  !.ranking_details = result.scores,
                                  !.status = "ranked"]]

\* lines 47-49 and 76-100: the caller's list after record k was scored;
\* _rank_single reads the record and builds a new RankingResult, it assigns
\* to no attribute of the record and to no slot of the list
InputAfterRankSingle(list, k, result) == list

\* lines 43-46: entry; arg is the `weights` argument, None or a vector object.
\* The call gets a new frame: no local variable keeps a value of an earlier call.
Start(t, arg, n) ==
    /\ Idle(t)
    /\ pc' = [pc EXCEPT ![t] = "score"]
    /\ start_time' = [start_time EXCEPT ![t] = now]
    /\ weights' = [weights EXCEPT ![t] = IF arg = None THEN self_weights ELSE Val(arg)]
    /\ top_n' = [top_n EXCEPT ![t] = n]
    /\ results' = [results EXCEPT ![t] = << >>]
    /\ idx' = [idx EXCEPT ![t] = 1]
    /\ adjusted_results' = [adjusted_results EXCEPT ![t] = << >>]
    /\ batch' = [batch EXCEPT ![t] = None]
    /\ first_pass' = [first_pass EXCEPT ![t] = << >>]
    /\ reads' = [reads EXCEPT ![t] = << >>]
    /\ overlapped' = [u \in Calls |->
                        IF u = t THEN \E v \in Calls \ {t} : ~Idle(v)
                        ELSE overlapped[u] \/ ~Idle(u)]
    /\ seen_categories' = [seen_categories EXCEPT ![t] = << >>]
    /\ seen_sources' = [seen_sources EXCEPT ![t] = << >>]
    /\ UNCHANGED <<got, articles, self_weights, wobj, error, now>>

\* lines 47-49: one iteration of the scoring loop; an exception of the scoring
\* ends the call without a batch
Score(t) ==
    /\ pc[t] = "score"
    /\ idx[t] <= Len(articles)
    /\ IF ScoringRaises(articles[idx[t]], now)
       THEN /\ pc' = [pc EXCEPT ![t] = "raised"]
            /\ UNCHANGED <<articles, results, reads, idx>>
       ELSE LET result == _rank_single(articles[idx[t]], weights[t], now, idx[t])
            IN  /\ results' = [results EXCEPT ![t] = Append(@, result)]
                /\ articles' = InputAfterRankSingle(articles, idx[t], result)
                /\ reads' = [reads EXCEPT ![t] = Append(@, now)]
                /\ idx' = [idx EXCEPT ![t] = @ + 1]
                /\ UNCHANGED pc
    /\ UNCHANGED <<got, self_weights, wobj, error, overlapped, now, weights, top_n, seen_categories,
                   seen_sources, adjusted_results, batch, start_time, first_pass>>

\* lines 51-61 and 256-262: sort, positions and percentiles, entry of the
\* diversity pass with fresh counters; an exception ends the call
SortAndAssign(t) ==
    /\ pc[t] = "score"
    /\ idx[t] > Len(articles)
    /\ IF PositionsRaise(results[t])
       THEN /\ pc' = [pc EXCEPT ![t] = "raised"]
            /\ UNCHANGED <<results, first_pass, seen_categories, seen_sources,
                           adjusted_results, idx>>
       ELSE /\ LET ranked == AssignPositions(SortByScoreDesc(results[t]))
               IN  /\ results' = [results EXCEPT ![t] = ranked]
                   /\ first_pass' = [first_pass EXCEPT ![t] = ranked]
            /\ seen_categories' = [seen_categories EXCEPT ![Frame(t)] = << >>]
            /\ seen_sources' = [seen_sources EXCEPT ![Frame(t)] = << >>]
            /\ adjusted_results' = [adjusted_results EXCEPT ![t] = << >>]
            /\ idx' = [idx EXCEPT ![t] = 1]
            /\ pc' = [pc EXCEPT ![t] = "diversity"]
    /\ UNCHANGED <<got, articles, self_weights, wobj, error, overlapped, now, weights, top_n, batch, start_time, reads>>

\* lines 263-285: one iteration of the diversity loop; the result object is
\* changed in place, so the change shows in `results` as well
Diversity(t) ==
    /\ pc[t] = "diversity"
    /\ idx[t] <= Len(results[t])
    /\ LET result == results[t][idx[t]]
           found == ArticleMapGet(articles, result.article_id)
       IN  IF found = None
           THEN /\ adjusted_results' = [adjusted_results EXCEPT ![t] = Append(@, result)]
                /\ UNCHANGED <<results, seen_categories, seen_sources>>
           ELSE LET article == Val(found)
                    category_count == DictGet(seen_categories[Frame(t)], article.category, 0)
                    source_count == DictGet(seen_sources[Frame(t)], article.source.name, 0)
                    changed == Penalised(result, category_count, source_count)
                IN  /\ results' = [results EXCEPT ![t][idx[t]] = changed]
                    /\ adjusted_results' = [adjusted_results EXCEPT ![t] = Append(@, changed)]
                    /\ seen_categories' = [seen_categories EXCEPT ![Frame(t)] =
                                             CountCategory(@, article)]
                    /\ seen_sources' = [seen_sources EXCEPT ![Frame(t)] =
                                          CountSource(@, article)]
    /\ idx' = [idx EXCEPT ![t] = @ + 1]
    /\ UNCHANGED <<got, articles, self_weights, wobj, error, overlapped, now, pc, weights, top_n, batch, start_time,
                   first_pass, reads>>

\* lines 287-289 and 61-74: re-sort, truncation, the batch
Return(t) ==
    /\ pc[t] = "diversity"
    /\ idx[t] > Len(results[t])
    /\ LET resorted == Resort(adjusted_results[t])
           limited == Truncate(resorted, top_n[t])
       IN  /\ adjusted_results' = [adjusted_results EXCEPT ![t] = resorted]
           /\ results' = [results EXCEPT ![t] = limited]
           /\ batch' = [batch EXCEPT ![t] =
                          Some([results |-> limited,
                                total_articles |-> Len(articles),
                                processing_time_ms |-> now - start_time[t],
                                weights_used |-> weights[t]])]
    /\ pc' = [pc EXCEPT ![t] = "done"]
    /\ UNCHANGED <<got, articles, self_weights, wobj, error, overlapped, now, weights, top_n, idx, seen_categories,
                   seen_sources, start_time, first_pass, reads>>

\* the wall clock advances by an hour
Tick ==
    /\ now < MaxNow
    /\ now' = now + 1
    /\ UNCHANGED <<got, articles, self_weights, wobj, error, overlapped, pc, weights, top_n, results, idx,
                   seen_categories, seen_sources, adjusted_results, batch, start_time,
                   first_pass, reads>>

-----------------------------------------------------------------------------
(* Specification Spec: one caller, one call of rank_articles after another *)

\* the vector objects a caller has constructed
CallerWeights == {Some(WeightsTimely)}

\* the values of the top_n argument: none, zero, and the largest of the model
TopNs == {None, Some(0), Some(MaxTopN)}

\* lines 33-34: self.weights = weights or RankingWeights.default()
ServiceInit(arg) == IF arg = None THEN WeightsDefault ELSE Val(arg)

InitCalls ==
    /\ got = None
    /\ now = 0
    /\ pc = [t \in Calls |-> "idle"]
    /\ weights = [t \in Calls |-> WeightsDefault]
    /\ top_n = [t \in Calls |-> None]
    /\ results = [t \in Calls |-> << >>]
    /\ idx = [t \in Calls |-> 1]
    /\ seen_categories = [t \in Calls |-> << >>]
    /\ seen_sources = [t \in Calls |-> << >>]
    /\ adjusted_results = [t \in Calls |-> << >>]
    /\ batch = [t \in Calls |-> None]
    /\ start_time = [t \in Calls |-> 0]
    /\ first_pass = [t \in Calls |-> << >>]
    /\ reads = [t \in Calls |-> << >>]
    /\ overlapped = [t \in Calls |-> FALSE]
    /\ error = None

Init ==
    /\ articles \in ArticleLists(Pool, MaxArticles)
    /\ wobj \in CallerWeights
    /\ self_weights = ServiceInit(None)
    /\ InitCalls

Call ==
    \E arg \in {None, wobj}, n \in TopNs : Start(1, arg, n)

\* time passes between two calls; in this specification a call runs within
\* one clock hour (SpecTwice and SpecConc let the clock advance inside a call)
TickBetweenCalls ==
    /\ \A t \in Calls : Idle(t)
    /\ Tick

Next ==
    \/ Call
    \/ Score(1)
    \/ SortAndAssign(1)
    \/ Diversity(1)
    \/ Return(1)
    \/ TickBetweenCalls

Spec == Init /\ [][Next]_vars

-----------------------------------------------------------------------------
(* Reading a finished call *)

Done(t) == pc[t] = "done"

\* the call has returned and the clock has not advanced since
JustReturned(t) ==
    /\ pc[t] = "done"
    /\ now = start_time[t] + Val(batch[t]).processing_time_ms

\* batch.results of a finished call
Res(t) == Val(batch[t]).results

\* the element of a list of results that came from input record o (ghost)
OfOrigin(list, o) == list[CHOOSE i \in 1..Len(list) : list[i].origin = o]

\* the total the first pass gave to the record a result came from (ghost)
FirstTotal(t, r) == OfOrigin(first_pass[t], r.origin).total_score

\* the place of that record in the first-pass order (ghost)
FirstPlace(t, r) == CHOOSE i \in 1..Len(first_pass[t]) : first_pass[t][i].origin = r.origin

Percent(r) == r.percentile

\* comparison of two exact fractions with positive denominators
FracLess(a, b) == a[1] * b[2] < b[1] * a[2]

FracLeq(a, b) == a[1] * b[2] <= b[1] * a[2]

NoLimit(t) == ~TruthyNum(top_n[t])

-----------------------------------------------------------------------------
(* C1 *)

\* C1 as stated: in every returned batch, two results with equal final
\* total_score stand in the relative order of their records in the input list.
C1_StableByInput ==
    \A t \in Calls : Done(t) =>
        \A i, j \in 1..Len(Res(t)) :
            (i < j /\ Res(t)[i].total_score = Res(t)[j].total_score)
                => Res(t)[i].origin < Res(t)[j].origin

\* C1 amended: two results with equal final total_score stand in the relative
\* order the first-pass sort gave them, and in input order whenever their
\* first-pass totals are equal as well.
C1_StableByFirstPass ==
    \A t \in Calls : Done(t) =>
        \A i, j \in 1..Len(Res(t)) :
            (i < j /\ Res(t)[i].total_score = Res(t)[j].total_score)
                => /\ FirstPlace(t, Res(t)[i]) < FirstPlace(t, Res(t)[j])
                   /\ FirstTotal(t, Res(t)[i]) = FirstTotal(t, Res(t)[j])
                        => Res(t)[i].origin < Res(t)[j].origin

\* a batch with two results of equal final total whose first-pass totals were
\* equal too and a third record between them in the input
C1_Witness ==
    /\ Done(1)
    /\ \E i, j \in 1..Len(Res(1)) :
          /\ i < j
          /\ Res(1)[i].total_score = Res(1)[j].total_score
          /\ FirstTotal(1, Res(1)[i]) = FirstTotal(1, Res(1)[j])
          /\ Res(1)[j].origin > Res(1)[i].origin + 1

-----------------------------------------------------------------------------
(* C2 *)

\* C2: in a batch returned without top_n, the result at index i (from 0) has
\* rank_position i + 1.
C2_PositionIsIndex ==
    \A t \in Calls : (Done(t) /\ top_n[t] = None) =>
        \A i \in 1..Len(Res(t)) : Res(t)[i].rank_position = i

-----------------------------------------------------------------------------
(* C6 *)

\* C6: in every returned batch the final total scores are non-increasing
\* along batch.results.
C6_NonIncreasing ==
    \A t \in Calls : Done(t) =>
        \A i \in 1..(Len(Res(t)) - 1) :
            Res(t)[i].total_score >= Res(t)[i + 1].total_score

\* a batch of three whose final order is not the first-pass order
C6_Witness ==
    /\ Done(1)
    /\ Len(Res(1)) = 3
    /\ \E i \in 1..3 : FirstPlace(1, Res(1)[i]) # i
    /\ Res(1)[1].total_score > Res(1)[3].total_score

-----------------------------------------------------------------------------
(* C3 *)

\* Scenario B: three records whose first-pass totals are all 0.8, a and b
\* (a before b in the input) of category "Tech" and source "X", u with a
\* category and a source of its own; no truncation
ScenarioB(t, a, b, u) ==
    /\ Done(t) /\ NoLimit(t)
    /\ Len(articles) = 3
    /\ {a, b, u} = {1, 2, 3} /\ a < b
    /\ \A i \in 1..3 : first_pass[t][i].total_score = 8000
    /\ \A i \in {a, b} : articles[i].category = Some("Tech") /\ articles[i].source.name = "X"
    /\ TruthyStr(articles[u].category)
    /\ articles[u].category # Some("Tech") /\ articles[u].source.name # "X"

FinalOf(t, o) == OfOrigin(Res(t), o)

\* C3 as stated: in Scenario B, for every input order, the unique record ends
\* at 0.8, the second "Tech"/"X" record at 0.75, and the unique record is first.
C3_UniqueFirst ==
    \A t \in Calls : \A a, b, u \in 1..3 : ScenarioB(t, a, b, u) =>
        /\ FinalOf(t, u).total_score = 8000
        /\ FinalOf(t, b).total_score = 7500
        /\ Res(t)[1].origin = u

\* C3 amended: in Scenario B, for every input order, the unique record ends at
\* 0.8, the second "Tech"/"X" record at 0.75, and the unique record stands
\* before the second "Tech"/"X" record; it is first exactly when it stands
\* before the first "Tech"/"X" record in the input, which keeps 0.8 too.
C3_UniqueBeforeSecond ==
    \A t \in Calls : \A a, b, u \in 1..3 : ScenarioB(t, a, b, u) =>
        /\ FinalOf(t, u).total_score = 8000
        /\ FinalOf(t, b).total_score = 7500
        /\ FinalOf(t, a).total_score = 8000
        /\ Res(t)[3].origin = b
        /\ (Res(t)[1].origin = u) <=> (u < a)

\* Scenario B with the unique record last in the input
C3_Witness == \E a, b \in 1..3 : ScenarioB(1, a, b, 3)

-----------------------------------------------------------------------------
(* C5 *)

\* C5: for n input records and every top_n >= 0, total_articles is n, the
\* result count without top_n is n and the result count with top_n is
\* min(top_n, n).
C5_Counts ==
    \A t \in Calls : Done(t) =>
        /\ Val(batch[t]).total_articles = Len(articles)
        /\ top_n[t] = None => Len(Res(t)) = Len(articles)
        /\ top_n[t] # None => Len(Res(t)) = Min(Val(top_n[t]), Len(articles))

-----------------------------------------------------------------------------
(* C7 *)

\* C7: in every non-empty batch each percentile lies in (0,100], the result
\* at index 0 of the final order has percentile 100, and with two or more
\* results the first percentile is strictly greater than the last.
C7_Percentiles ==
    \A t \in Calls : (Done(t) /\ Len(Res(t)) >= 1) =>
        LET n == Len(Res(t))
        IN  /\ \A i \in 1..n : /\ FracLess(<<0, 1>>, Percent(Res(t)[i]))
                               /\ FracLeq(Percent(Res(t)[i]), <<100, 1>>)
            /\ Percent(Res(t)[1])[1] = 100 * Percent(Res(t)[1])[2]
            /\ n >= 2 => FracLess(Percent(Res(t)[n]), Percent(Res(t)[1]))

\* a batch whose last result is not the last of the first pass
C7_Witness ==
    /\ Done(1)
    /\ Len(Res(1)) = 3
    /\ FirstPlace(1, Res(1)[3]) = 2
    /\ FracLess(Percent(Res(1)[2]), Percent(Res(1)[3]))

-----------------------------------------------------------------------------
(* C8 *)

\* a batch of k >= 2 records of one present category and one source whose
\* first-pass totals are identical, returned without truncation
SameCategoryAndSource(t) ==
    /\ Done(t) /\ NoLimit(t)
    /\ Len(articles) >= 2
    /\ \A i \in 1..Len(articles) :
          /\ TruthyStr(articles[i].category)
          /\ articles[i].category = articles[1].category
          /\ articles[i].source.name = articles[1].source.name
    /\ \A i \in 1..Len(first_pass[t]) :
          first_pass[t][i].total_score = first_pass[t][1].total_score

\* C8: in such a batch the j-th result in rank order (j > 1) has
\* category_diversity and geographic_diversity strictly below those of the
\* first result, and the final totals do not increase with j.
C8_DiversityMonotone ==
    \A t \in Calls : SameCategoryAndSource(t) =>
        \A j \in 2..Len(Res(t)) :
            /\ DictGet(Res(t)[j].scores, "category_diversity", 100)
                 < DictGet(Res(t)[1].scores, "category_diversity", 100)
            /\ DictGet(Res(t)[j].scores, "geographic_diversity", 100)
                 < DictGet(Res(t)[1].scores, "geographic_diversity", 100)
            /\ Res(t)[j].total_score <= Res(t)[j - 1].total_score

\* three such records: the third has seen its category and source twice
C8_Witness ==
    /\ SameCategoryAndSource(1)
    /\ Len(Res(1)) = 3
    /\ DictGet(Res(1)[3].scores, "category_diversity", 100) = 60

-----------------------------------------------------------------------------
(* Specification SpecTwice: the same input ranked twice with the same       *)
(* arguments, the second call after the first has returned                  *)

\* the records of the specifications with two calls
ConcPool == {P1, P2, P3}

\* what the service constructor is given: nothing, or a preset
ServiceArgs == {None, Some(WeightsQualityFocused)}

InitSmall ==
    /\ articles \in ArticleLists(ConcPool, MaxConcArticles)
    /\ wobj \in CallerWeights
    /\ self_weights \in {ServiceInit(arg) : arg \in ServiceArgs}
    /\ InitCalls

FirstCall ==
    /\ pc[2] = "idle"
    /\ pc[1] = "idle"
    /\ \E arg \in {None, wobj}, n \in TopNs : Start(1, arg, n)

SecondCall ==
    /\ pc[1] = "done"
    /\ pc[2] = "idle"
    /\ Start(2, Some(weights[1]), top_n[1])

NextTwice ==
    \/ FirstCall
    \/ SecondCall
    \/ \E t \in Calls : Score(t)
    \/ \E t \in Calls : SortAndAssign(t)
    \/ \E t \in Calls : Diversity(t)
    \/ \E t \in Calls : Return(t)
    \/ Tick

SpecTwice == InitSmall /\ [][NextTwice]_vars

\* C9: ranking the same input twice with the same weights returns identical
\* results (order, totals, breakdowns, rank positions, percentiles), whatever
\* the time that passes between the two calls.
C9_SameTwice ==
    (Done(1) /\ Done(2)) => Res(1) = Res(2)

-----------------------------------------------------------------------------
(* Specification SpecConc: two calls on one service and one input list      *)
(* whose steps interleave                                                   *)

InitConc ==
    /\ articles \in ArticleLists(ConcPool, MaxConcArticles)
    /\ wobj = Some(WeightsTimely)
    /\ self_weights = ServiceInit(None)
    /\ InitCalls

\* each of the two calls is made once: the first with the service's weights
\* and no top_n, the second with either vector and top_n = 1
AnyCall ==
    \/ pc[1] = "idle" /\ Start(1, None, None)
    \/ \E arg \in {None, wobj} : pc[2] = "idle" /\ Start(2, arg, Some(1))

NextConc ==
    \/ AnyCall
    \/ \E t \in Calls : Score(t)
    \/ \E t \in Calls : SortAndAssign(t)
    \/ \E t \in Calls : Diversity(t)
    \/ \E t \in Calls : Return(t)
    \/ Tick

SpecConc == InitConc /\ [][NextConc]_vars

\* lines 263-285 run to the end from result k on, with the counters so far
RECURSIVE DiversityFrom(_, _, _, _, _)
DiversityFrom(list, k, input, categories, sources) ==
    IF k > Len(list) THEN << >>
    ELSE LET result == list[k]
             found == ArticleMapGet(input, result.article_id)
         IN  IF found = None
             THEN <<result>> \o DiversityFrom(list, k + 1, input, categories, sources)
             ELSE LET article == Val(found)
                      changed == Penalised(result,
                                           DictGet(categories, article.category, 0),
                                           DictGet(sources, article.source.name, 0))
                  IN  <<changed>> \o DiversityFrom(list, k + 1, input,
                                                   CountCategory(categories, article),
                                                   CountSource(sources, article))

\* rank_articles run from entry to return with nothing in between; clocks[k]
\* is the clock value at the scoring of record k
RankAlone(input, w, n, clocks) ==
    LET scored == [k \in 1..Len(input) |-> _rank_single(input[k], w, clocks[k], k)]
        ranked == AssignPositions(SortByScoreDesc(scored))
        adjusted == DiversityFrom(ranked, 1, input, << >>, << >>)
    IN  Truncate(Resort(adjusted), n)

\* every call returns what it returns when it runs alone
C10_AsAlone ==
    \A t \in Calls : Done(t) =>
        /\ Res(t) = RankAlone(articles, weights[t], top_n[t], reads[t])
        /\ Val(batch[t]).total_articles = Len(articles)
        /\ Val(batch[t]).weights_used = weights[t]

\* a step that is not a step of call t leaves the variables of call t alone
C10_NoWrite ==
    \A t \in Calls : (pc'[t] = pc[t] /\ idx'[t] = idx[t]) =>
        /\ results'[t] = results[t]
        /\ adjusted_results'[t] = adjusted_results[t]
        /\ seen_categories'[t] = seen_categories[t]
        /\ seen_sources'[t] = seen_sources[t]
        /\ weights'[t] = weights[t]
        /\ top_n'[t] = top_n[t]
        /\ batch'[t] = batch[t]

\* C10: two rank_articles calls whose steps interleave on one service and one
\* unmodified input list each return the batch they return when run alone, and
\* no step of one call writes state the other call reads.
C10_Reentrant == []C10_AsAlone /\ [][C10_NoWrite]_vars

\* both calls have returned, each ran while the other was running, and the
\* diversity pass of each lowered a total (for the call with top_n the
\* lowered result may be among those cut off)
C10_Witness ==
    /\ Done(1) /\ Done(2)
    /\ overlapped[1] /\ overlapped[2]
    /\ \A t \in Calls : \E i \in 1..Len(adjusted_results[t]) :
          adjusted_results[t][i].total_score < FirstTotal(t, adjusted_results[t][i])
    /\ Len(Res(2)) < Len(Res(1))

-----------------------------------------------------------------------------
(* Specification SpecW: the life of the caller's weight vector              *)

\* field values a caller passes to the constructor
WeightCandidates ==
    {WeightsDefault, WeightsQualityFocused, WeightsEngagementFocused, WeightsTimely,
     Weights(20, 20, 15, 10, 15, 10, 11), Weights(20, 20, 15, 10, 15, 10, 12),
     Weights(20, 20, 15, 10, 15, 10, 8), Weights(20, 20, 15, 10, 15, 10, 9),
     Weights(50, 50, 50, 10, 10, 10, 10), WeightsSigned}

\* RankingWeights(...): __post_init__ raises or the object exists
Construct(w) ==
    /\ \A t \in Calls : Idle(t)
    /\ IF PostInitRaises(w)
       THEN error' = Some("ValueError") /\ UNCHANGED wobj
       ELSE error' = None /\ wobj' = Some(w)
    /\ UNCHANGED <<got, articles, self_weights, now, pc, weights, top_n, results, idx,
                   seen_categories, seen_sources, adjusted_results, batch, start_time,
                   first_pass, reads, overlapped>>

\* to_dict: the seven fields in the order of the class
to_dict(w) ==
    << <<"quality", w.quality>>, <<"credibility", w.credibility>>,
       <<"engagement", w.engagement>>, <<"visuals", w.visuals>>,
       <<"timeliness", w.timeliness>>, <<"category_diversity", w.category_diversity>>,
       <<"geographic_diversity", w.geographic_diversity>> >>

\* cls(**data): a field that data does not name takes the default of the class
FromDictArgs(data) == [f \in WeightFields |-> DictGet(data, f, WeightsDefault[f])]

\* from_dict(data): the constructor called with the fields of data
FromDict(data) ==
    /\ \A t \in Calls : Idle(t)
    /\ Construct(FromDictArgs(data))

\* the dict of test_weights_from_dict, the empty dict, a dict of one field,
\* and dicts written by to_dict
DictCandidates ==
    {to_dict(Weights(25, 25, 15, 10, 10, 8, 7)), << >>, << <<"quality", 30>> >>,
     to_dict(WeightsEngagementFocused), to_dict(Weights(20, 20, 15, 10, 15, 10, 11))}

\* an attribute assignment on the object: the dataclass is not frozen and
\* __post_init__ does not run again
SetAttr(f, v) ==
    /\ \A t \in Calls : Idle(t)
    /\ wobj # None
    /\ wobj' = Some([Val(wobj) EXCEPT ![f] = v])
    /\ UNCHANGED <<got, articles, self_weights, error, now, pc, weights, top_n, results, idx,
                   seen_categories, seen_sources, adjusted_results, batch, start_time,
                   first_pass, reads, overlapped>>

\* the fields the caller assigns to, and the values it assigns
AssignedFields == {"quality", "geographic_diversity"}

AssignedValues == {0, 30}

InitW ==
    /\ articles \in ArticleLists({P1}, MaxConcArticles)
    /\ wobj = None
    /\ self_weights = ServiceInit(None)
    /\ InitCalls

\* a call with the service's weights or with the caller's object
CallW ==
    \E arg \in {None, wobj} : Start(1, arg, None)

NextW ==
    \/ \E data \in DictCandidates : FromDict(data)
    \/ \E w \in WeightCandidates : Construct(w)
    \/ \E f \in AssignedFields, v \in AssignedValues : SetAttr(f, v)
    \/ CallW
    \/ Score(1)
    \/ SortAndAssign(1)
    \/ Diversity(1)
    \/ Return(1)

SpecW == InitW /\ [][NextW]_vars

\* C4: no weight vector whose seven fields do not sum to 1.0 within 0.01
\* exists, and rank_articles never scores a record with such a vector.
C4_NeverInvalid ==
    /\ wobj # None => ~PostInitRaises(Val(wobj))
    /\ \A t \in Calls : pc[t] # "idle" => ~PostInitRaises(weights[t])

-----------------------------------------------------------------------------
(* C11 *)

\* C11: rank_articles leaves its input unchanged: no step of a call changes
\* the caller's list (its length, its order, any field of any record), so
\* every record still has status "scraped", rank_score 0 and empty
\* ranking_details when the call has returned.
C11_InputUnchanged ==
    /\ [](\A i \in 1..Len(articles) :
            /\ articles[i].status = "scraped"
            /\ articles[i].rank_score = 0
            /\ articles[i].ranking_details = << >>)
    /\ [][articles' = articles]_vars

\* a finished call over three records that gave a record a positive total
C11_Witness ==
    /\ Done(1)
    /\ Len(articles) = MaxArticles
    /\ \E k \in 1..Len(Res(1)) :
          /\ Res(1)[k].total_score > 0
          /\ articles[Res(1)[k].origin].rank_score = 0
          /\ articles[Res(1)[k].origin].status = "scraped"

-----------------------------------------------------------------------------
(* C12 *)

FracEq(a, b) == a[1] * b[2] = b[1] * a[2]

\* what the same call returns when it is made without top_n
WithoutTopN(t) == RankAlone(articles, weights[t], None, reads[t])

\* C12: truncation does not change standing: every result a call with
\* top_n = k returns has the rank_position, the percentile and the
\* total_score that the result of the same record has when the same input
\* is ranked without top_n.
C12_TruncationKeepsStanding ==
    \A t \in Calls : (JustReturned(t) /\ top_n[t] # None) =>
        \A k \in 1..Len(Res(t)) :
            LET r == Res(t)[k]
                full == OfOrigin(WithoutTopN(t), r.origin)
            IN  /\ r.rank_position = full.rank_position
                /\ FracEq(Percent(r), Percent(full))
                /\ r.total_score = full.total_score

\* a call with top_n = MaxTopN over one record more cut one result off, and
\* the last result it kept has the last first-pass position
C12_Witness ==
    /\ Done(1)
    /\ top_n[1] = Some(MaxTopN)
    /\ Len(articles) = MaxTopN + 1
    /\ Len(Res(1)) = MaxTopN
    /\ Res(1)[MaxTopN].rank_position = MaxTopN + 1

-----------------------------------------------------------------------------
(* C13 *)

\* the record with every absent optional field filled in
WellFormed(article) ==
    [article EXCEPT
        !.category = IF @ = None THEN Some("Tech") ELSE @,
        !.scraped_at = IF @ = None THEN Some(0) ELSE @,
        !.author = IF @ = None THEN Some("John Reporter") ELSE @,
        !.excerpt_len = IF @ = None THEN Some(80) ELSE @,
        !.image_url = IF @ = None THEN Some("https://example.com/image1.jpg") ELSE @,
        !.generated_image_url = IF @ = None THEN Some("https://example.com/image2.jpg") ELSE @,
        !.images = IF @ = 0 THEN 2 ELSE @,
        !.source = [@ EXCEPT !.reliability_score = IF @ = None THEN Some(80) ELSE @]]

\* the record lacks an optional field
Lacks(article) == WellFormed(article) # article

\* lines 47-58: the first-pass list of an input
FirstPassOf(input, w, clocks) ==
    AssignPositions(SortByScoreDesc(
        [k \in 1..Len(input) |-> _rank_single(input[k], w, clocks[k], k)]))

-----------------------------------------------------------------------------
(* C14 *)

\* values given to the two diversity weights
DiversityWeightValues == {0, 10, 20}

\* the accepted vectors that agree with w on the five base weights
SameBaseWeights(w) ==
    {v \in {[w EXCEPT !.category_diversity = cd, !.geographic_diversity = gd] :
               cd \in DiversityWeightValues, gd \in DiversityWeightValues} :
        ~PostInitRaises(v)}

\* order, totals and breakdowns of a list of results
Standing(list) ==
    [k \in 1..Len(list) |->
        [origin |-> list[k].origin, article_id |-> list[k].article_id,
         total_score |-> list[k].total_score, scores |-> list[k].scores]]

\* C14: two calls on the same records with weight vectors that agree on the
\* five base weights and differ only in category_diversity and
\* geographic_diversity return the same final order, the same totals and the
\* same breakdowns.
C14_DiversityWeightsUnused ==
    \A t \in Calls : JustReturned(t) =>
        \A v \in SameBaseWeights(weights[t]) \ {weights[t]} :
            LET other == RankAlone(articles, v, top_n[t], reads[t])
            IN  Standing(Res(t)) = Standing(other)

\* a finished call whose diversity pass lowered a total, with a vector that
\* has a counterpart of other diversity weights
C14_Witness ==
    /\ Done(1)
    /\ \E k \in 1..Len(Res(1)) : Res(1)[k].total_score < FirstTotal(1, Res(1)[k])
    /\ \E v \in SameBaseWeights(weights[1]) :
          /\ v.category_diversity # weights[1].category_diversity
          /\ v.geographic_diversity # weights[1].geographic_diversity

-----------------------------------------------------------------------------
(* C15 *)

\* lines 86-92: the weighted sum of the five criterion scores of a breakdown
WeightedSum(scores, w) ==
    DictGet(scores, "quality", 0) * w.quality
      + DictGet(scores, "credibility", 0) * w.credibility
      + DictGet(scores, "engagement", 0) * w.engagement
      + DictGet(scores, "visuals", 0) * w.visuals
      + DictGet(scores, "timeliness", 0) * w.timeliness

-----------------------------------------------------------------------------
(* C16 *)

\* the seven fields sum to 1.0 within 0.01
SumWithinTolerance(w) == Abs(WeightSum(w) - 100) <= 1

\* C16: constructing a weight vector succeeds exactly when its seven fields
\* sum to 1.0 within 0.01 and fails with a validation error otherwise, and
\* from_dict does what the constructor does with the fields of the dict.
C16_ConstructIffSum ==
    [][/\ \A w \in WeightCandidates :
             Construct(w) => ((error' = None) <=> SumWithinTolerance(w))
       /\ \A data \in DictCandidates :
             FromDict(data) => ((error' = None) <=> SumWithinTolerance(FromDictArgs(data)))]_vars

-----------------------------------------------------------------------------
(* C17 *)

\* C17: rank_articles on an empty input raises no error and returns a batch
\* with no results and total_articles 0.
C17_EmptyInput ==
    \A t \in Calls : Len(articles) = 0 =>
        /\ pc[t] # "raised"
        /\ Done(t) =>
              /\ batch[t] # None
              /\ Res(t) = << >>
              /\ Val(batch[t]).total_articles = 0

\* a call on the empty list has returned
C17_Witness ==
    /\ Done(1)
    /\ articles = << >>
    /\ batch[1] # None
    /\ first_pass[1] = << >>

-----------------------------------------------------------------------------
(* C18 *)

\* the batch and every result record the vector of the call, and the
\* first-pass total of every result is the weighted sum under that vector
C18_Recorded ==
    \A t \in Calls : Done(t) =>
        /\ Val(batch[t]).weights_used = weights[t]
        /\ \A k \in 1..Len(Res(t)) :
              /\ Res(t)[k].weights_used = weights[t]
              /\ FirstTotal(t, Res(t)[k])
                    = WeightedSum(Res(t)[k].scores, Res(t)[k].weights_used)

\* the vector of a call is the weights argument when one is passed, and the
\* vector of the service otherwise
C18_Chosen ==
    \A arg \in {None, wobj}, n \in TopNs :
        Start(1, arg, n) =>
            weights'[1] = IF arg # None THEN Val(arg) ELSE self_weights

\* the vector of the service is the one given to its constructor, or the
\* default preset
C18_OfService ==
    self_weights \in {Val(arg) : arg \in ServiceArgs \ {None}} \cup {WeightsDefault}

\* C18: the weight vector recorded in batch.weights_used and in every
\* result's weights_used is the one used for scoring: the weights argument
\* when one is passed, otherwise the vector given to the service constructor,
\* otherwise the default preset.
C18_WeightsUsedRecorded ==
    [](C18_Recorded /\ C18_OfService) /\ [][C18_Chosen]_vars

\* the first call was made without weights on a service constructed with a
\* preset, the second with a vector passed; both returned results
C18_Witness ==
    /\ Done(1) /\ Done(2)
    /\ self_weights # WeightsDefault
    /\ weights[1] = self_weights
    /\ Len(Res(1)) >= 1
    /\ Res(1)[1].weights_used = self_weights
    /\ Val(batch[2]).weights_used = weights[2]

-----------------------------------------------------------------------------
(* Specification SpecTop: a caller builds a RankingBatch from results in    *)
(* any order and calls get_top on it                                        *)

\* RankingResult(article_id=..., total_score=...), the other fields at their
\* defaults; two of the results have the same total
Result(id, total) ==
    [article_id |-> id, total_score |-> total, scores |-> << >>,
     weights_used |-> None, rank_position |-> 0, percentile |-> <<0, 1>>,
     origin |-> 0]

ResultPool ==
    {Result("a1", 9500), Result("a2", 8500), Result("a3", 8500), Result("a4", 5500)}

\* RankingBatch(results=order, total_articles=len(order))
BuildBatch(order) ==
    /\ batch' = [batch EXCEPT ![1] =
                   Some([results |-> order, total_articles |-> Len(order),
                         processing_time_ms |-> 0, weights_used |-> None])]
    /\ got' = None
    /\ UNCHANGED <<articles, self_weights, wobj, error, now, pc, weights, top_n,
                   results, idx, seen_categories, seen_sources, adjusted_results,
                   start_time, first_pass, reads, overlapped>>

\* a get_top that slices the list as it stands
get_topUnsorted(list, n) == SubSeq(list, 1, Min(n, Len(list)))

\* lines 130-133: sorted(self.results, key=total_score, reverse=True)[:n],
\* for n >= 0
get_top(list, n) ==
    LET sorted_results == SortByScoreDesc(list)
    IN  SubSeq(sorted_results, 1, Min(n, Len(sorted_results)))

\* self.results after get_top: sorted() builds a new list
ResultsAfterGetTop(list, n) == list

\* batch.get_top(n)
GetTop(n) ==
    /\ batch[1] # None
    /\ got' = Some([n |-> n, given |-> Res(1), returned |-> get_top(Res(1), n)])
    /\ batch' = [batch EXCEPT ![1] =
                   Some([Val(@) EXCEPT !.results = ResultsAfterGetTop(@, n)])]
    /\ UNCHANGED <<articles, self_weights, wobj, error, now, pc, weights, top_n,
                   results, idx, seen_categories, seen_sources, adjusted_results,
                   start_time, first_pass, reads, overlapped>>

InitTop ==
    /\ articles = << >>
    /\ wobj = None
    /\ self_weights = ServiceInit(None)
    /\ InitCalls

NextTop ==
    \/ \E order \in ArticleLists(ResultPool, MaxArticles) : BuildBatch(order)
    \/ \E n \in 0..MaxGetTop : GetTop(n)

SpecTop == InitTop /\ [][NextTop]_vars

\* C19: get_top(n) returns min(n, len(results)) results, those of the highest
\* total_score in descending order, for every n >= 0 and every order of
\* batch.results, and leaves batch.results as it was.
C19_GetTop ==
    got # None =>
        LET n == Val(got).n
            given == Val(got).given
            returned == Val(got).returned
        IN  /\ Len(returned) = Min(n, Len(given))
            /\ \A i, j \in 1..Len(returned) :
                  i < j => returned[i].total_score >= returned[j].total_score
            /\ NoRepeat(returned)
            /\ \A i \in 1..Len(returned) : \E k \in 1..Len(given) : given[k] = returned[i]
            /\ \A k \in 1..Len(given) :
                  (\A i \in 1..Len(returned) : returned[i] # given[k]) =>
                      \A i \in 1..Len(returned) :
                          given[k].total_score <= returned[i].total_score
            /\ Res(1) = given

\* get_top(2) on a batch of three results that are not in descending order
C19_Witness ==
    /\ got # None
    /\ Val(got).n = 2
    /\ Len(Val(got).given) = 3
    /\ Val(got).given[1].total_score < Val(got).given[3].total_score
    /\ Len(Val(got).returned) = 2
    /\ Val(got).returned[1].total_score > Val(got).returned[2].total_score

-----------------------------------------------------------------------------
(* C20 *)

\* the record a first-pass result was computed from (ghost)
RecordOf(t, p) == articles[first_pass[t][p].origin]

\* the number of first-pass positions before p whose record has the present
\* category of the record at p
CategoryBefore(t, p) ==
    IF TruthyStr(RecordOf(t, p).category)
    THEN Cardinality({q \in 1..(p - 1) : RecordOf(t, q).category = RecordOf(t, p).category})
    ELSE 0

\* the number of first-pass positions before p whose record has the source
\* name of the record at p
SourceBefore(t, p) ==
    Cardinality({q \in 1..(p - 1) : RecordOf(t, q).source.name = RecordOf(t, p).source.name})

\* the diversity pass as a fold over the first-pass order
FoldHolds(t) ==
    \A p \in 1..Len(first_pass[t]) :
        LET final == OfOrigin(adjusted_results[t], first_pass[t][p].origin)
        IN  /\ final.total_score
                 = Max(0, first_pass[t][p].total_score
                            - ((CategoryBefore(t, p) * 200) + (SourceBefore(t, p) * 300)))
            /\ DictGet(final.scores, "category_diversity", 0)
                 = Max(0, 100 - (CategoryBefore(t, p) * 20))
            /\ DictGet(final.scores, "geographic_diversity", 0)
                 = Max(0, 100 - (SourceBefore(t, p) * 20))

\* C20: the diversity pass is a fold over the first-pass order: for the
\* result at first-pass position p, category_count is the number of earlier
\* positions whose record has the same present category, source_count the
\* number of earlier positions whose record has the same source name, and the
\* final total is max(0, first-pass total - (category_count * 0.02 +
\* source_count * 0.03)).
C20_Fold ==
    \A t \in Calls : JustReturned(t) => FoldHolds(t)

\* the same for the inputs in which no two records share an id
C20_FoldUniqueIds ==
    \A t \in Calls :
        (JustReturned(t) /\ \A i, j \in 1..Len(articles) :
                                i # j => articles[i].id # articles[j].id)
            => FoldHolds(t)

-----------------------------------------------------------------------------
(* The counts of the diversity pass as the code takes them *)

\* line 264: the record the pass finds for the result at first-pass position p
FoundFor(t, p) == Val(ArticleMapGet(articles, first_pass[t][p].article_id))

\* line 270: seen_categories.get(article.category, 0) when the pass is at
\* position p: the found records of the earlier positions with that category,
\* none of which is counted without a category (line 281)
CategoryCount(t, p) ==
    Cardinality({q \in 1..(p - 1) : /\ TruthyStr(FoundFor(t, q).category)
                                    /\ FoundFor(t, q).category = FoundFor(t, p).category})

\* line 271: seen_sources.get(article.source.name, 0) at position p
SourceCount(t, p) ==
    Cardinality({q \in 1..(p - 1) : FoundFor(t, q).source.name = FoundFor(t, p).source.name})

\* line 273: diversity_penalty at position p
DiversityPenalty(t, p) == (CategoryCount(t, p) * 200) + (SourceCount(t, p) * 300)

-----------------------------------------------------------------------------
(* C21 *)

\* the vector passes the validation of the constructor
Accepted(w) == ~PostInitRaises(w)

\* the first-pass total of every result lies in [0,1] and its final total
\* lies between 0 and its first-pass total
TotalsBounded(t) ==
    \A p \in 1..Len(first_pass[t]) :
        LET final == OfOrigin(adjusted_results[t], first_pass[t][p].origin)
        IN  /\ 0 <= first_pass[t][p].total_score
            /\ first_pass[t][p].total_score <= 10000
            /\ 0 <= final.total_score
            /\ final.total_score <= first_pass[t][p].total_score

\* C21: for every accepted weight vector and every batch, each result's
\* first-pass total lies in [0,1] and its final total satisfies
\* 0 <= final total <= first-pass total.
C21_TotalsBounded ==
    \A t \in Calls : (Done(t) /\ Accepted(weights[t])) => TotalsBounded(t)

\* the same for the accepted vectors none of whose fields is negative
C21_TotalsBoundedNonNegative ==
    \A t \in Calls :
        (Done(t) /\ Accepted(weights[t]) /\ \A f \in WeightFields : weights[t][f] >= 0)
            => TotalsBounded(t)

-----------------------------------------------------------------------------
(* Specification SpecFeed: a service with the default weights ranks a feed  *)
(* of up to MaxFeed records that all come from one source and one category  *)

FeedIds == <<"f1", "f2", "f3", "f4", "f5", "f6", "f7", "f8">>

\* record k of the feed, scraped three days ago: a short title that matches
\* two clickbait patterns ("Shocking!!!"), no content, a domain that is not in
\* the credibility table
FeedStale(k) ==
    [BaseArticle EXCEPT !.id = FeedIds[k], !.title_len = 11, !.clickbait = 2,
         !.scraped_at = Some(0 - 72),
         !.source = [name |-> "Feed", domain |-> <<"example", "org">>, reliability_score |-> Some(50)]]

\* record k of the feed, scraped at hour 0: a headline of good length with a
\* question mark, a number, the six trending terms, "breaking" and "exclusive"
FeedFresh(k) ==
    [FeedStale(k) EXCEPT !.title_len = 64, !.clickbait = 0, !.scraped_at = Some(0),
         !.question = TRUE, !.number = TRUE, !.trending = 6,
         !.breaking = TRUE, !.exclusive = TRUE]

\* the feeds of n records: each record stale or fresh
FeedsOf(n) ==
    {[k \in 1..n |-> IF k \in fresh THEN FeedFresh(k) ELSE FeedStale(k)] : fresh \in SUBSET (1..n)}

FeedLists == UNION {FeedsOf(n) : n \in 0..MaxFeed}

InitFeed ==
    /\ articles \in FeedLists
    /\ wobj = None
    /\ self_weights = ServiceInit(None)
    /\ InitCalls

\* rank_articles(articles) or rank_articles(articles, top_n=n)
CallFeed ==
    /\ wobj = None
    /\ \E n \in TopNs : Start(1, None, n)

NextFeed ==
    \/ CallFeed
    \/ Score(1)
    \/ SortAndAssign(1)
    \/ Diversity(1)
    \/ Return(1)
    \/ TickBetweenCalls

SpecFeed == InitFeed /\ [][NextFeed]_vars

-----------------------------------------------------------------------------
(* C22 *)

\* C22 as stated: every result in a batch ranked with the default weights has
\* total_score > 0, for every batch size and every mix of sources and
\* categories.
C22_AllPositive ==
    \A t \in Calls : (Done(t) /\ weights[t] = WeightsDefault) =>
        \A i \in 1..Len(Res(t)) : Res(t)[i].total_score > 0

\* C22 amended: every result in a batch ranked with the default weights has a
\* first-pass total > 0 and a final total >= 0, and its final total is > 0
\* exactly when its first-pass total is greater than the penalty
\* category_count * 0.02 + source_count * 0.03 the diversity pass gave it.
C22_PositiveUnlessPenalised ==
    \A t \in Calls : (Done(t) /\ weights[t] = WeightsDefault) =>
        \A p \in 1..Len(first_pass[t]) :
            LET final == OfOrigin(adjusted_results[t], first_pass[t][p].origin)
            IN  /\ first_pass[t][p].total_score > 0
                /\ final.total_score >= 0
                /\ (final.total_score > 0)
                      <=> (first_pass[t][p].total_score > DiversityPenalty(t, p))

\* a returned batch of five records of one source whose last result has the
\* total 0 and whose first has a total above 0
C22_Witness ==
    /\ Done(1) /\ weights[1] = WeightsDefault
    /\ Len(Res(1)) = 5
    /\ Res(1)[1].total_score > 0
    /\ Res(1)[5].total_score = 0
    /\ FirstTotal(1, Res(1)[5]) > 0

-----------------------------------------------------------------------------
(* Specification SpecScrapes: the input holds repeated scrapes of one URL,  *)
(* which carry one id, and records without a category                       *)

\* a scrape of URL u1 without a category
S1 == [BaseArticle EXCEPT !.id = "u1", !.category = None,
         !.source = [name |-> "X", domain |-> <<"bbc", "com">>, reliability_score |-> Some(50)]]

\* a second scrape of URL u1, by another source, with a category
S2 == [BaseArticle EXCEPT !.id = "u1", !.category = Some("Tech"),
         !.source = [name |-> "Y", domain |-> <<"cnn", "com">>, reliability_score |-> Some(50)]]

\* a record of the category of S2 and the source of S1
S3 == [BaseArticle EXCEPT !.id = "u3"]

\* a record whose category is the empty string
S4 == [BaseArticle EXCEPT !.id = "u4", !.category = Some(""),
         !.source = [name |-> "Y", domain |-> <<"cnn", "com">>, reliability_score |-> Some(50)]]

ScrapePool == {S1, S2, S3, S4}

InitScrapes ==
    /\ articles \in ArticleLists(ScrapePool, MaxArticles)
    /\ wobj \in CallerWeights
    /\ self_weights = ServiceInit(None)
    /\ InitCalls

SpecScrapes == InitScrapes /\ [][Next]_vars

\* no two records of the input carry the same id
UniqueIds == \A i, j \in 1..Len(articles) : i # j => articles[i].id # articles[j].id

-----------------------------------------------------------------------------
(* C23 *)

\* a step of the diversity loop of call t on a result whose record has no
\* category (None or the empty string)
NoCategoryStep(t) ==
    /\ pc[t] = "diversity"
    /\ idx'[t] = idx[t] + 1
    /\ ~TruthyStr(articles[results[t][idx[t]].origin].category)

\* what the step does to such a result and to the counters: no category
\* component in the penalty, category_diversity 1, the category counter as it
\* was, the source of the record counted
NoCategoryEffect(t) ==
    LET result == results[t][idx[t]]
        record == articles[result.origin]
        source_count == DictGet(seen_sources[t], record.source.name, 0)
        changed == results'[t][idx[t]]
    IN  /\ changed.total_score = Max(0, result.total_score - (source_count * 300))
        /\ DictGet(changed.scores, "category_diversity", 0) = 100
        /\ seen_categories'[t] = seen_categories[t]
        /\ DictGet(seen_sources'[t], record.source.name, 0) = source_count + 1

\* C23: a record with no category (None or empty) always has category_count
\* 0, so its penalty is exactly source_count * 0.03 and its
\* category_diversity sub-score is 1; it never raises the category count of a
\* later record, and its source is always counted.
C23_NoCategory ==
    [][\A t \in Calls : NoCategoryStep(t) => NoCategoryEffect(t)]_vars

\* the same for the inputs in which no two records share an id
C23_NoCategoryUniqueIds ==
    [][\A t \in Calls : (UniqueIds /\ NoCategoryStep(t)) => NoCategoryEffect(t)]_vars

-----------------------------------------------------------------------------
(* Specification SpecScore: a service with the default weights ranks one    *)
(* record; the source and the content length of the record vary             *)

\* source domains: in the credibility table, in the table behind "www.",
\* unknown in mixed case behind "WWW.", unknown
Domains ==
    {<<"reuters", "com">>, <<"www", "bbc", "co", "uk">>, <<"WWW", "Example", "org">>,
     <<"example", "org">>}

\* reliability scores of a source: absent, 0.0, 0.3, 1.0
Reliabilities == {None, Some(0), Some(30), Some(100)}

\* content lengths at and around the three thresholds of _score_quality
ContentLens == {0, 499, 500, 501, 999, 1000, 1001, 1999, 2000, 2001}

\* a record of one paragraph without quotation marks
ScoreRecord(domain, reliability, length) ==
    [BaseArticle EXCEPT !.content_len = length,
         !.source = [name |-> "X", domain |-> domain, reliability_score |-> reliability]]

InitScore ==
    /\ articles \in {<<ScoreRecord(domain, reliability, length)>> :
                        domain \in Domains, reliability \in Reliabilities,
                        length \in ContentLens}
    /\ wobj = None
    /\ self_weights = ServiceInit(None)
    /\ InitCalls

\* rank_articles(articles)
CallScore ==
    /\ wobj = None
    /\ Start(1, None, None)

NextScore ==
    \/ CallScore
    \/ Score(1)
    \/ SortAndAssign(1)
    \/ Diversity(1)
    \/ Return(1)

SpecScore == InitScore /\ [][NextScore]_vars

-----------------------------------------------------------------------------
(* C24 *)

\* the fallback chain as claimed: the table value, else the reliability score
\* whenever one is present, else 0.5
CredibilityChain(article) ==
    LET domain == NormalDomain(article.source.domain)
    IN  IF \E e \in CREDIBILITY_SCORES : e[1] = domain
        THEN (CHOOSE e \in CREDIBILITY_SCORES : e[1] = domain)[2]
        ELSE IF article.source.reliability_score # None
        THEN Val(article.source.reliability_score)
        ELSE 50

\* C24: the credibility score of a record is the table value when its
\* normalised domain (lower-cased, leading "www." removed) is in the table;
\* otherwise it is the record's own reliability score whenever one is present,
\* for every value in [0,1] including 0; only when none is present is it 0.5.
C24_CredibilityChain ==
    \A t \in Calls : Done(t) =>
        \A i \in 1..Len(Res(t)) :
            DictGet(Res(t)[i].scores, "credibility", 0)
                = CredibilityChain(articles[Res(t)[i].origin])

\* the same for the records whose reliability score is not 0
C24_CredibilityChainNonZero ==
    \A t \in Calls : Done(t) =>
        \A i \in 1..Len(Res(t)) :
            articles[Res(t)[i].origin].source.reliability_score # Some(0)
                => DictGet(Res(t)[i].scores, "credibility", 0)
                     = CredibilityChain(articles[Res(t)[i].origin])

-----------------------------------------------------------------------------
(* C25 *)

\* the content-length part as claimed
LengthPart(length) ==
    IF length >= 2000 THEN 30
    ELSE IF length >= 1000 THEN 20
    ELSE IF length >= 500 THEN 10
    ELSE 0

\* the quality score of the record without its content: the other parts
QualityWithoutContent(article) == _score_quality([article EXCEPT !.content_len = 0])

\* C25: the content-length part of the quality score is +0.3 for length >=
\* 2000, else +0.2 for length >= 1000, else +0.1 for length >= 500, else 0,
\* for every length including the boundary values 500, 1000 and 2000 (the
\* records of SpecScore have one paragraph and no quotation mark, and the sum
\* of their parts stays inside [0,1]).
C25_LengthTiers ==
    \A t \in Calls : Done(t) =>
        \A i \in 1..Len(Res(t)) :
            LET article == articles[Res(t)[i].origin]
            IN  DictGet(Res(t)[i].scores, "quality", 0)
                    = LengthPart(article.content_len) + QualityWithoutContent(article)

\* the same away from the three boundary values
C25_LengthTiersOffBoundary ==
    \A t \in Calls : Done(t) =>
        \A i \in 1..Len(Res(t)) :
            LET article == articles[Res(t)[i].origin]
            IN  article.content_len \notin {500, 1000, 2000}
                    => DictGet(Res(t)[i].scores, "quality", 0)
                         = LengthPart(article.content_len) + QualityWithoutContent(article)

\* the monotonicity alone: a record never scores lower on quality with a
\* greater content length, all other fields fixed
C25_Monotone ==
    \A i \in 1..Len(articles) : \A length \in ContentLens :
        length >= articles[i].content_len
            => _score_quality([articles[i] EXCEPT !.content_len = length])
                 >= _score_quality(articles[i])

-----------------------------------------------------------------------------
(* C26 *)

\* the reliability score of the source is absent or lies in [0,1]
ReliabilityInRange(article) ==
    \/ article.source.reliability_score = None
    \/ /\ 0 <= Val(article.source.reliability_score)
       /\ Val(article.source.reliability_score) <= 100

BreakdownKeys ==
    <<"quality", "credibility", "engagement", "visuals", "timeliness",
      "category_diversity", "geographic_diversity">>

\* C26: for every record whose reliability score is in [0,1], each of the
\* five criterion scores and both diversity sub-scores stored in the
\* breakdown of its result lies in [0,1].
C26_ScoresInUnitRange ==
    \A t \in Calls : Done(t) =>
        \A i \in 1..Len(adjusted_results[t]) :
            LET result == adjusted_results[t][i]
            IN  ReliabilityInRange(articles[result.origin]) =>
                    \A k \in 1..Len(BreakdownKeys) :
                        /\ DictHas(result.scores, BreakdownKeys[k])
                        /\ 0 <= DictGet(result.scores, BreakdownKeys[k], 0 - 1)
                        /\ DictGet(result.scores, BreakdownKeys[k], 0 - 1) <= 100

\* a feed of seven records of which one has its quality held at 0 (the parts
\* sum to -0.2), one its engagement held at 1 (the parts sum to 1.15) and the
\* seventh both diversity sub-scores held at 0 (1 - 6 * 0.2 is -0.2)
C26_Witness ==
    /\ Done(1)
    /\ Len(adjusted_results[1]) = 7
    /\ \E i \in 1..7 :
          /\ articles[adjusted_results[1][i].origin].clickbait = 2
          /\ DictGet(adjusted_results[1][i].scores, "quality", 0 - 1) = 0
    /\ \E i \in 1..7 :
          /\ articles[adjusted_results[1][i].origin].trending = 6
          /\ DictGet(adjusted_results[1][i].scores, "engagement", 0 - 1) = 100
    /\ \E i \in 1..7 :
          /\ adjusted_results[1][i].rank_position = 7
          /\ DictGet(adjusted_results[1][i].scores, "category_diversity", 0 - 1) = 0
          /\ DictGet(adjusted_results[1][i].scores, "geographic_diversity", 0 - 1) = 0

-----------------------------------------------------------------------------
(* C27 *)

\* what the diversity pass leaves of the result `before` in the result `after`:
\* seven entries in insertion order of which the first five are the entries of
\* `before`, and the id, the weights, the position and the percentile
FrameKept(before, after) ==
    /\ DictKeys(before.scores) = SubSeq(BreakdownKeys, 1, 5)
    /\ DictKeys(after.scores) = BreakdownKeys
    /\ SubSeq(after.scores, 1, 5) = before.scores
    /\ after.article_id = before.article_id
    /\ after.weights_used = before.weights_used
    /\ after.rank_position = before.rank_position
    /\ after.percentile = before.percentile

\* C27: after rank_articles every result's breakdown has exactly seven
\* entries in insertion order (quality, credibility, engagement, visuals,
\* timeliness, category_diversity, geographic_diversity); the diversity pass
\* adds the last two and lowers total_score only, leaving the five base
\* entries, article_id, weights_used, rank_position and percentile unchanged.
C27_SevenEntriesTotalLowered ==
    \A t \in Calls : Done(t) =>
        \A p \in 1..Len(first_pass[t]) :
            LET before == first_pass[t][p]
                after == OfOrigin(adjusted_results[t], before.origin)
            IN  /\ FrameKept(before, after)
                /\ after.total_score <= before.total_score

\* the frame alone, without the direction in which total_score changes
C27_FrameKept ==
    \A t \in Calls : Done(t) =>
        \A p \in 1..Len(first_pass[t]) :
            FrameKept(first_pass[t][p],
                      OfOrigin(adjusted_results[t], first_pass[t][p].origin))

-----------------------------------------------------------------------------
(* Specification SpecByCategory: a caller ranks a list and filters the      *)
(* returned batch with RankingBatch.get_by_category                         *)

\* the categories a caller asks for: two that occur in the input, one that
\* does not
Categories == {"Tech", "World", "Sports"}

\* dict.get(key): the value, None for a key that is not in the dict
ScoresGet(scores, key) ==
    IF DictHas(scores, key) THEN Some(DictGet(scores, key, 0)) ELSE None

\* lines 135-137: [r for r in self.results if r.scores.get('category') == category]
get_by_category(list, category) ==
    SelectSeq(list, LAMBDA r : ScoresGet(r.scores, "category") = Some(category))

\* batch.get_by_category(category) on the batch the call has returned
GetByCategory(category) ==
    /\ pc[1] = "done"
    /\ got' = Some([category |-> category, given |-> Res(1),
                    returned |-> get_by_category(Res(1), category)])
    /\ UNCHANGED <<articles, self_weights, wobj, error, now, pc, weights, top_n, results, idx,
                   seen_categories, seen_sources, adjusted_results, batch, start_time,
                   first_pass, reads, overlapped>>

InitByCategory ==
    /\ articles \in ArticleLists(ConcPool, MaxConcArticles)
    /\ wobj \in CallerWeights
    /\ self_weights = ServiceInit(None)
    /\ InitCalls

NextByCategory ==
    \/ Call
    \/ Score(1)
    \/ SortAndAssign(1)
    \/ Diversity(1)
    \/ Return(1)
    \/ \E category \in Categories : GetByCategory(category)

SpecByCategory == InitByCategory /\ [][NextByCategory]_vars

-----------------------------------------------------------------------------
(* C28 *)

\* C28: for a batch produced by rank_articles, get_by_category(c) returns
\* exactly the results whose record has category c.
C28_ByCategory ==
    got # None =>
        Val(got).returned
            = SelectSeq(Val(got).given,
                        LAMBDA r : articles[r.origin].category = Some(Val(got).category))

\* what the method returns for a batch of rank_articles: nothing
C28_AlwaysEmpty ==
    got # None => Val(got).returned = << >>

-----------------------------------------------------------------------------
(* C29 *)

\* a step of the diversity loop of call t
DiversityStep(t) ==
    /\ pc[t] = "diversity"
    /\ idx'[t] = idx[t] + 1

\* the step penalises the result by the counts of the category and the source
\* name of the record the result was computed from, and counts that record
OwnRecordUsed(t) ==
    LET result == results[t][idx[t]]
        record == articles[result.origin]
    IN  /\ results'[t][idx[t]]
             = Penalised(result,
                         DictGet(seen_categories[t], record.category, 0),
                         DictGet(seen_sources[t], record.source.name, 0))
        /\ seen_categories'[t] = CountCategory(seen_categories[t], record)
        /\ seen_sources'[t] = CountSource(seen_sources[t], record)

\* C29: when several input records share one id, each result's penalty and
\* diversity sub-scores are still computed from the category and the source
\* name of the record that produced the result, and each such record
\* increments the counters with its own category and source.
C29_OwnRecord ==
    [][\A t \in Calls : DiversityStep(t) => OwnRecordUsed(t)]_vars

\* the same for the inputs in which no two records share an id
C29_OwnRecordUniqueIds ==
    [][\A t \in Calls : (UniqueIds /\ DiversityStep(t)) => OwnRecordUsed(t)]_vars

-----------------------------------------------------------------------------
(* C30 *)

\* the list holds exactly one result for every input record, carrying the id
\* of that record
PermutationOfInput(list) ==
    /\ Len(list) = Len(articles)
    /\ \A k \in 1..Len(articles) :
          /\ Cardinality({i \in 1..Len(list) : list[i].origin = k}) = 1
          /\ OfOrigin(list, k).article_id = articles[k].id

\* C30: the pre-truncation results are a permutation of the input: each input
\* record yields exactly one result carrying its id, neither sort nor the
\* diversity pass drops or duplicates a result, and the returned results are a
\* prefix of that permutation, so every returned result's final total is >=
\* every omitted result's.
C30_PermutationAndPrefix ==
    \A t \in Calls : Done(t) =>
        /\ PermutationOfInput(first_pass[t])
        /\ PermutationOfInput(adjusted_results[t])
        /\ Len(Res(t)) <= Len(adjusted_results[t])
        /\ Res(t) = SubSeq(adjusted_results[t], 1, Len(Res(t)))
        /\ \A i \in 1..Len(Res(t)) :
              \A j \in (Len(Res(t)) + 1)..Len(adjusted_results[t]) :
                  Res(t)[i].total_score >= adjusted_results[t][j].total_score

\* a batch cut to top_n = MaxTopN from an input with one result more, two
\* records of which share an id; the re-sort has moved a result, and the
\* omitted result has a lower total than the last returned one
C30_Witness ==
    /\ Done(1)
    /\ top_n[1] = Some(MaxTopN)
    /\ Len(adjusted_results[1]) = MaxTopN + 1
    /\ Len(Res(1)) = MaxTopN
    /\ ~UniqueIds
    /\ \E i \in 1..Len(adjusted_results[1]) :
          FirstPlace(1, adjusted_results[1][i]) # i
    /\ adjusted_results[1][MaxTopN + 1].total_score < Res(1)[MaxTopN].total_score

====
